---- MODULE Spec2Model ----
(***************************************************************************)
(* A model of the document Q&A backend: the token chunker (chunker.py),    *)
(* the batched embedding step and the upload / delete / chat handlers      *)
(* (main.py, llm.py) over the documents and chunks tables (database.py).   *)
(***************************************************************************)
EXTENDS Integers, Sequences, FiniteSets, TLC

(***************************************************************************)
(* Bounds of the model.                                                    *)
(***************************************************************************)
\* longest token sequence given to chunk_text in SpecChunk
MaxTokens == 1000
\* requests the server handles in one run
MaxReq == 2
\* chat requests among them in SpecChat
MaxChats == 1
\* embedding batches of the longest upload in SpecEmbed
MaxBatches == 3

(***************************************************************************)
(* chunker.py                                                              *)
(***************************************************************************)
CHUNK_SIZE == 500
CHUNK_OVERLAP == 50
\* the literal 50 of "len(tokens) - start < 50"
TinyTail == 50

Min(a, b) == IF a <= b THEN a ELSE b

\* tokens[s:e] of a token list of length len, as the half-open range of
\* positions it holds (Python clamps both ends of a slice to the length).
\* A chunk string is tokenizer.decode of such a slice; the model names the
\* chunk by the slice it decodes.
Slice(len, s, e) == [lo |-> Min(s, len), hi |-> Min(e, len)]

\* "start += CHUNK_SIZE - CHUNK_OVERLAP" written with the wrong sign
StrideGap == CHUNK_SIZE + CHUNK_OVERLAP

\* the amount start advances by in one iteration
Stride == CHUNK_SIZE - CHUNK_OVERLAP

\* One iteration of "while start < len(tokens)": the window is appended,
\* start advances, and a short remainder is appended as a chunk of its own
\* before the break.
ChunkIter(len, st) ==
    LET window == Slice(len, st.start, st.start + CHUNK_SIZE)
        start2 == st.start + Stride
        short  == start2 < len /\ len - start2 < TinyTail
    IN  [start  |-> start2,
         chunks |-> IF short
                    THEN Append(Append(st.chunks, window), Slice(len, start2, len))
                    ELSE Append(st.chunks, window),
         tail   |-> short,
         done   |-> short]

RECURSIVE ChunkLoop(_, _)
ChunkLoop(len, st) ==
    IF st.done \/ ~(st.start < len) THEN st.chunks
    ELSE ChunkLoop(len, ChunkIter(len, st))

ChunkStart == [start |-> 0, chunks |-> <<>>, tail |-> FALSE, done |-> FALSE]

\* chunk_text(text) for a text that encodes to len tokens
ChunkText(len) == ChunkLoop(len, ChunkStart)

(***************************************************************************)
(* llm.py and the embedding step of upload_document                        *)
(***************************************************************************)
BATCH_SIZE == 20

\* The vector the embedding model gives a text: a function of the text alone.
Embed(t) == [of |-> t]

\* embed_texts(texts): one request, the response's items in input order
EmbedTexts(texts) == [i \in 1..Len(texts) |-> Embed(texts[i])]

NumBatches(chunks) == (Len(chunks) + BATCH_SIZE - 1) \div BATCH_SIZE

\* batches = [chunks[i:i + BATCH_SIZE] for i in range(0, len(chunks), BATCH_SIZE)]
Batches(chunks) ==
    [b \in 1..NumBatches(chunks) |->
        SubSeq(chunks, (b - 1) * BATCH_SIZE + 1, Min(b * BATCH_SIZE, Len(chunks)))]

\* results taken in the order the requests completed (asyncio.as_completed)
GatherAsCompleted(done) == [k \in 1..Len(done) |-> done[k].vectors]

\* asyncio.gather(*tasks): done lists the finished tasks in completion order;
\* the result list holds each task's result at the task's own position.
Gather(done) ==
    [b \in 1..Len(done) |->
        (CHOOSE e \in {done[k] : k \in 1..Len(done)} : e.batch = b).vectors]

RECURSIVE Flatten(_)
\* [emb for result in batch_results for emb in result]
Flatten(results) ==
    IF results = <<>> THEN <<>>
    ELSE Head(results) \o Flatten(Tail(results))

(***************************************************************************)
(* database.py: the documents and chunks tables                            *)
(***************************************************************************)
\* The attributes of class Document: its columns and its relationship. The
\* class declares no version column, though upload_document reads and passes
\* one. Rows are kept without uploaded_at, which no step below reads.
DocumentAttrs == {"id", "filename", "uploaded_at", "chunks"}

\* "no row": what .first() returns when nothing matches
NoDoc == [id |-> 0, filename |-> ""]

\* db.delete(doc) that leaves the chunks rows behind
DeleteNoCascade(st, id) ==
    [docs |-> {d \in st.docs : d.id # id}, chunks |-> st.chunks]

\* db.delete(doc): relationship(..., cascade="all, delete-orphan") deletes the
\* document's chunks with it
DeleteCascade(st, id) ==
    [docs   |-> {d \in st.docs : d.id # id},
     chunks |-> {c \in st.chunks : c.document_id # id}]

\* the rows db.query(Document).filter(Document.filename == filename) matches
ByFilename(st, filename) == {d \in st.docs : d.filename = filename}

\* the Chunk rows the loop over zip(chunks, all_embeddings) adds
ChunkRows(id, chunks, embeddings) ==
    {[document_id |-> id, chunk_index |-> i - 1,
      content |-> chunks[i], embedding |-> embeddings[i]] :
        i \in 1..Min(Len(chunks), Len(embeddings))}

(***************************************************************************)
(* main.py: upload_document, steps 4 and 5                                 *)
(***************************************************************************)
\* what the handler ends with when it raises: the session is closed by
\* get_db without a commit, so nothing it wrote is kept
Raised(st, error) == [status |-> 500, error |-> error, store |-> st, version |-> 0, id |-> 0]

\* steps 4 and 5 without step 4 and without the version keyword: every upload
\* inserts a new document
PersistInsertOnly(st, filename, chunks, embeddings, existing, newId, failAt) ==
    [status |-> 200, error |-> "",
     store |-> [docs   |-> st.docs \cup {[id |-> newId, filename |-> filename]},
                chunks |-> st.chunks \cup ChunkRows(newId, chunks, embeddings)],
     version |-> 1, id |-> newId]

\* step 4 with db.commit() in place of db.flush() and the version read after it
PersistCommitsDelete(st, filename, chunks, embeddings, existing, newId, failAt) ==
    IF existing.id # 0
    THEN Raised(DeleteCascade(st, existing.id), "AttributeError")
    ELSE Raised(st, "TypeError")

\* Lines 155-186, run without a suspension point once the embeddings are in.
\* existing is the row .first() returned (NoDoc for None); failAt names the
\* store statement that fails, if one does.
PersistUpload(st, filename, chunks, embeddings, existing, newId, failAt) ==
    IF failAt = "query" THEN Raised(st, "StoreError")
    ELSE IF existing.id # 0 /\ "version" \notin DocumentAttrs
    THEN Raised(st, "AttributeError")      \* existing_doc.version
    ELSE
    LET next_version == IF existing.id # 0 THEN existing.version + 1 ELSE 1
        flushed == IF existing.id # 0 THEN DeleteCascade(st, existing.id) ELSE st
    IN  IF existing.id # 0 /\ failAt = "flush" THEN Raised(st, "StoreError")
        ELSE IF ~({"filename", "version"} \subseteq DocumentAttrs)
        THEN Raised(st, "TypeError")       \* Document(filename=..., version=...)
        ELSE IF failAt = "commit" THEN Raised(st, "StoreError")
        ELSE [status |-> 200, error |-> "",
              store |-> [docs   |-> flushed.docs \cup
                                      {[id |-> newId, filename |-> filename,
                                        version |-> next_version]},
                         chunks |-> flushed.chunks \cup
                                      ChunkRows(newId, chunks, embeddings)],
              version |-> next_version, id |-> newId]

(***************************************************************************)
(* main.py: the request bodies and their checks                            *)
(***************************************************************************)
SUPPORTED_EXTENSIONS == {".pdf", ".docx", ".txt", ".md", ".csv"}

\* the ending of the lower-cased filename that line 116 looks for
ExtOf(filename) ==
    CASE filename \in {"a.txt", "b.txt"} -> ".txt"
      [] OTHER -> ".exe"

\* Lines 115-144: the status the handler raises before chunking, 0 for none.
\* A file is its filename, whether it exceeds MAX_UPLOAD_BYTES, whether its
\* extractor raises, and the token count of the text extracted (0: blank).
UploadRejects(file) ==
    IF ExtOf(file.filename) \notin SUPPORTED_EXTENSIONS THEN 400
    ELSE IF file.oversize THEN 413
    ELSE IF file.corrupt THEN 422
    ELSE IF file.tokens = 0 THEN 422
    ELSE 0

\* str.strip() on the strings the model sends as identifiers
Strip(s) ==
    CASE s = " uuid-1 " -> "uuid-1"
      [] s = "  " -> ""
      [] OTHER -> s

\* uuid.UUID(s): the identifier s spells (case is ignored, surrounding blanks
\* are not), 0 for ValueError
ParseUUID(s) ==
    CASE s \in {"uuid-1", "UUID-1"} -> 1
      [] s = "uuid-2" -> 2
      [] s = "uuid-9" -> 9
      [] OTHER -> 0

\* Lines 268-274: doc_ids_raw, then doc_ids_to_use
ValidIds(document_ids) ==
    LET raw == {Strip(document_ids[i]) : i \in 1..Len(document_ids)} \ {""}
    IN  {ParseUUID(s) : s \in raw} \ {0}

\* "c.embedding <=> :embedding": a number fixed by the two vectors, smaller
\* for nearer
Distance(qv, cv) == (qv.of.hi + cv.of.hi + (cv.of.lo \div Stride)) % 3

\* The rows of "chunks c JOIN documents d ON c.document_id = d.id" with their
\* distance to the query. The statement selects content, filename and
\* distance; document_id is kept to tell which document a row came from.
Joined(st, qv) ==
    {[content |-> c.content,
      filename |-> (CHOOSE d \in st.docs : d.id = c.document_id).filename,
      distance |-> Distance(qv, c.embedding),
      document_id |-> c.document_id] :
        c \in {x \in st.chunks : \E d \in st.docs : d.id = x.document_id}}

\* the statement of the else branch used whether or not ids were given
CandidatesUnscoped(st, qv, scope) == Joined(st, qv)

\* "WHERE c.document_id IN :doc_ids" when doc_ids_to_use is non-empty, no
\* WHERE clause otherwise
Candidates(st, qv, scope) ==
    IF scope # {} THEN {row \in Joined(st, qv) : row.document_id \in scope}
    ELSE Joined(st, qv)

RECURSIVE Orders(_)
\* "ORDER BY distance ASC": every listing of the rows by non-decreasing
\* distance (rows at the same distance come in any order)
Orders(rows) ==
    IF rows = {} THEN {<<>>}
    ELSE UNION {{<<row>> \o s : s \in Orders(rows \ {row})} :
                  row \in {x \in rows : \A o \in rows : x.distance <= o.distance}}

\* "LIMIT :top_k" for top_k >= 0
Limit(s, top_k) == SubSeq(s, 1, Min(top_k, Len(s)))

\* lines 303-316 without the "if not results" check
ChatReplyUnchecked(results) ==
    [status |-> 200, error |-> "", context |-> results, generating |-> TRUE]

\* Lines 303-316: 404 on no rows, else the streaming response is started
\* with the rows as context.
ChatReply(results) ==
    IF results = <<>>
    THEN [status |-> 404, error |-> "NotFound", context |-> <<>>, generating |-> FALSE]
    ELSE [status |-> 200, error |-> "", context |-> results, generating |-> TRUE]

\* Lines 276-316. PostgreSQL refuses a negative LIMIT when the statement is
\* executed, whatever the tables hold.
ChatOutcomes(st, qv, document_ids, top_k) ==
    IF top_k < 0
    THEN {[status |-> 500, error |-> "StoreError", context |-> <<>>, generating |-> FALSE]}
    ELSE {ChatReply(Limit(s, top_k)) :
            s \in Orders(Candidates(st, qv, ValidIds(document_ids)))}

(***************************************************************************)
(* The state                                                               *)
(***************************************************************************)
VARIABLES
    ck_len,     \* len(tokens) of the text being chunked
    ck_st,      \* start, chunks and whether the loop took the break
    ck_pc,      \* "loop" | "done"
    store,      \* the committed rows of the documents and chunks tables
    nextId,     \* the next fresh uuid4
    req,        \* the requests: where each handler is and what it holds
    removed,    \* ids of the documents whose deletion has been committed
    uploads     \* per filename, the committed uploads since it was last absent

vars == <<ck_len, ck_st, ck_pc, store, nextId, req, removed, uploads>>

ckvars == <<ck_len, ck_st, ck_pc>>

svvars == <<store, nextId, req, removed, uploads>>

Reqs == 1..MaxReq

Filenames == {"a.txt", "b.txt"}

\* a request that has not arrived
BlankReq ==
    [kind |-> "none", pc |-> "new", status |-> 0, error |-> "",
     \* upload_document
     filename |-> "", chunks |-> <<>>, done |-> <<>>, embeddings |-> <<>>,
     version |-> 0, doc_id |-> 0,
     overlapped |-> FALSE, persisting |-> FALSE, seq |-> 0, replaced |-> FALSE,
     sole |-> FALSE,
     \* delete_document
     target |-> 0,
     \* chat
     question |-> 0, document_ids |-> <<>>, top_k |-> 0,
     context |-> <<>>, generating |-> FALSE, pool |-> 0, whole |-> FALSE,
     stale |-> FALSE]

\* The tables outlive the process (init_db creates them only when absent):
\* the rows of documents uploaded earlier, one per filename.
SeedDocs == {[id |-> 1, filename |-> "a.txt"], [id |-> 2, filename |-> "b.txt"]}

SeedTokens(id) == IF id = 1 THEN 600 ELSE 100

SeedStore(docs) ==
    [docs   |-> docs,
     chunks |-> UNION {ChunkRows(d.id, ChunkText(SeedTokens(d.id)),
                                 EmbedTexts(ChunkText(SeedTokens(d.id)))) : d \in docs}]

IdleServer ==
    /\ store = SeedStore({})
    /\ nextId = 3
    /\ req = [r \in Reqs |-> BlankReq]
    /\ removed = {}
    /\ uploads = [f \in Filenames |-> 0]

(***************************************************************************)
(* chunk_text, one loop iteration a step                                   *)
(***************************************************************************)
InitChunk ==
    /\ ck_len \in 0..MaxTokens
    /\ ck_st = ChunkStart
    /\ ck_pc = "loop"
    /\ IdleServer

\* the loop condition holds: one iteration
ChunkIterate ==
    /\ ck_pc = "loop"
    /\ ck_st.start < ck_len
    /\ ck_st' = ChunkIter(ck_len, ck_st)
    /\ ck_pc' = IF ck_st'.done THEN "done" ELSE "loop"
    /\ UNCHANGED <<ck_len, svvars>>

\* the loop condition fails: return chunks
ChunkReturn ==
    /\ ck_pc = "loop"
    /\ ~(ck_st.start < ck_len)
    /\ ck_pc' = "done"
    /\ UNCHANGED <<ck_len, ck_st, svvars>>

NextChunk == ChunkIterate \/ ChunkReturn

SpecChunk == InitChunk /\ [][NextChunk]_vars /\ WF_vars(NextChunk)

(***************************************************************************)
(* The server: upload_document, delete_document and chat                   *)
(***************************************************************************)
\* the files the model uploads
UploadFiles ==
    {[filename |-> "a.txt", oversize |-> FALSE, corrupt |-> FALSE, tokens |-> n] :
        n \in {0, 300, 9100}}
    \cup {[filename |-> "b.txt", oversize |-> FALSE, corrupt |-> FALSE, tokens |-> 300],
          [filename |-> "c.exe", oversize |-> FALSE, corrupt |-> FALSE, tokens |-> 300],
          [filename |-> "b.txt", oversize |-> TRUE, corrupt |-> FALSE, tokens |-> 300],
          [filename |-> "b.txt", oversize |-> FALSE, corrupt |-> TRUE, tokens |-> 0]}

\* the identifiers the model sends to delete_document
DeleteIds == {"uuid-1", "uuid-2", "uuid-9", " uuid-1 ", "zzz"}

\* the bodies the model sends to chat; document_ids None is sent as the
\* empty list, which "body.document_ids or []" makes of it
ChatBodies ==
    {[question |-> 7, document_ids |-> ids, top_k |-> k] :
        ids \in {<<>>, <<"zzz">>, <<"  ">>, <<" uuid-1 ">>, <<"zzz", "uuid-2">>,
                 <<"uuid-9">>},
        k \in {-1, 0, 1, 2}}

\* the chat body sent while uploads and deletions run
ProbeBodies == {body \in ChatBodies : body.top_k = 2 /\ body.document_ids = <<>>}

Init ==
    /\ ck_len = 0
    /\ ck_st = ChunkStart
    /\ ck_pc = "done"
    /\ store \in {SeedStore(docs) : docs \in SUBSET SeedDocs}
    /\ nextId = 3
    /\ req = [r \in Reqs |-> BlankReq]
    /\ removed = {}
    /\ uploads = [f \in Filenames |-> IF ByFilename(store, f) = {} THEN 0 ELSE -1]

\* Request r arrives: the requests are numbered in the order they arrive.
Arrives(r) ==
    /\ req[r].kind = "none"
    /\ \A o \in Reqs : o < r => req[o].kind # "none"

Finish(r, status, error) ==
    [req[r] EXCEPT !.pc = "done", !.status = status, !.error = error]

\* Lines 115-151: the request is checked, the text chunked and one
\* embed_texts call per batch issued; the handler then waits in gather.
UploadStart(r, file) ==
    /\ Arrives(r)
    /\ req' = [req EXCEPT ![r] =
          IF UploadRejects(file) # 0
          THEN [@ EXCEPT !.kind = "upload", !.filename = file.filename,
                         !.pc = "done", !.status = UploadRejects(file),
                         !.error = "Rejected"]
          ELSE [@ EXCEPT !.kind = "upload", !.filename = file.filename,
                         !.pc = "embedding", !.chunks = ChunkText(file.tokens),
                         !.overlapped =
                             \E o \in Reqs : /\ req[o].kind = "upload"
                                            /\ req[o].pc = "embedding"
                                            /\ req[o].filename = file.filename]]
    /\ UNCHANGED <<ckvars, store, nextId, removed, uploads>>

\* st holds exactly one document named f, and its chunks are those of chunks
SoleLive(st, f, chunks) ==
    /\ Cardinality(ByFilename(st, f)) = 1
    /\ \A d \in ByFilename(st, f) :
          {c \in st.chunks : c.document_id = d.id}
              = ChunkRows(d.id, chunks, EmbedTexts(chunks))

Pending(r) ==
    {b \in 1..NumBatches(req[r].chunks) :
        \A k \in 1..Len(req[r].done) : req[r].done[k].batch # b}

\* one embed_texts call returns
EmbedBatchDone(r, b) ==
    /\ req[r].kind = "upload" /\ req[r].pc = "embedding"
    /\ b \in Pending(r)
    /\ req' = [req EXCEPT ![r].done =
          Append(@, [batch |-> b, vectors |-> EmbedTexts(Batches(req[r].chunks)[b])])]
    /\ UNCHANGED <<ckvars, store, nextId, removed, uploads>>

\* one embed_texts call raises: gather raises it in the handler
EmbedBatchFail(r, b) ==
    /\ req[r].kind = "upload" /\ req[r].pc = "embedding"
    /\ b \in Pending(r)
    /\ req' = [req EXCEPT ![r] =
          [Finish(r, 500, "UpstreamFailure") EXCEPT !.done = <<>>]]
    /\ UNCHANGED <<ckvars, store, nextId, removed, uploads>>

\* Lines 152-186: gather returns and the handler runs to its end; there is no
\* await on the way, so no other coroutine runs in between.
UploadPersist(r) ==
    /\ req[r].kind = "upload" /\ req[r].pc = "embedding"
    /\ Pending(r) = {}
    /\ \E failAt \in {"none", "query", "flush", "commit"} :
       \E existing \in (IF ByFilename(store, req[r].filename) = {} THEN {NoDoc}
                        ELSE ByFilename(store, req[r].filename)) :
          LET all_embeddings == Flatten(Gather(req[r].done))
              res == PersistUpload(store, req[r].filename, req[r].chunks,
                                   all_embeddings, existing, nextId, failAt)
              f == req[r].filename
              count == IF res.status = 200 /\ uploads[f] >= 0
                       THEN uploads[f] + 1 ELSE uploads[f]
          IN  /\ store' = res.store
              /\ nextId' = IF res.status = 200 THEN nextId + 1 ELSE nextId
              /\ removed' = IF res.status = 200 /\ existing.id # 0
                            THEN removed \cup {existing.id} ELSE removed
              /\ uploads' = [uploads EXCEPT ![f] = count]
              /\ req' = [req EXCEPT ![r] =
                    [@ EXCEPT !.pc = "done", !.status = res.status,
                              !.error = res.error, !.embeddings = all_embeddings,
                              !.version = res.version, !.doc_id = res.id,
                              !.persisting = (res.error # "StoreError"),
                              !.replaced = (existing.id # 0),
                              !.seq = count,
                              !.sole = SoleLive(res.store, f, req[r].chunks)]]
    /\ UNCHANGED ckvars

\* Lines 208-214: the identifier is parsed and the document looked up.
DeleteStart(r, id) ==
    /\ Arrives(r)
    /\ req' = [req EXCEPT ![r] =
          IF ParseUUID(id) = 0
          THEN [@ EXCEPT !.kind = "delete", !.pc = "done", !.status = 400,
                         !.error = "Invalid"]
          ELSE IF \A d \in store.docs : d.id # ParseUUID(id)
          THEN [@ EXCEPT !.kind = "delete", !.pc = "done", !.status = 404,
                         !.error = "NotFound"]
          ELSE [@ EXCEPT !.kind = "delete", !.pc = "deleting",
                         !.target = ParseUUID(id)]]
    /\ UNCHANGED <<ckvars, store, nextId, removed, uploads>>

\* Lines 215-217: db.delete(doc) and db.commit(). The handler runs on a
\* worker thread, so other requests run between its lookup and this.
DeleteCommit(r) ==
    /\ req[r].kind = "delete" /\ req[r].pc = "deleting"
    /\ store' = DeleteCascade(store, req[r].target)
    /\ removed' = removed \cup {req[r].target}
    /\ uploads' = [f \in Filenames |->
          IF \E d \in store.docs : d.id = req[r].target /\ d.filename = f
          THEN 0 ELSE uploads[f]]
    /\ req' = [req EXCEPT ![r] = Finish(r, 200, "")]
    /\ UNCHANGED <<ckvars, nextId>>

\* Line 261: the handler waits for embed_query.
ChatStart(r, body) ==
    /\ Arrives(r)
    /\ req' = [req EXCEPT ![r] =
          [@ EXCEPT !.kind = "chat", !.pc = "asking", !.question = body.question,
                    !.document_ids = body.document_ids, !.top_k = body.top_k]]
    /\ UNCHANGED <<ckvars, store, nextId, removed, uploads>>

\* embed_query raises
ChatEmbedFail(r) ==
    /\ req[r].kind = "chat" /\ req[r].pc = "asking"
    /\ req' = [req EXCEPT ![r] = Finish(r, 500, "UpstreamFailure")]
    /\ UNCHANGED <<ckvars, store, nextId, removed, uploads>>

\* Lines 265-316: embed_query has returned; the handler queries the store and
\* answers.
ChatRetrieve(r) ==
    /\ req[r].kind = "chat" /\ req[r].pc = "asking"
    /\ LET qv == EmbedTexts(<<Slice(req[r].question, 0, req[r].question)>>)[1]
           scope == ValidIds(req[r].document_ids)
       IN  \E out \in ChatOutcomes(store, qv, req[r].document_ids, req[r].top_k) :
              req' = [req EXCEPT ![r] =
                 [@ EXCEPT !.pc = "done", !.status = out.status, !.error = out.error,
                           !.context = out.context, !.generating = out.generating,
                           !.pool = Cardinality(Candidates(store, qv, scope)),
                           !.whole = (Candidates(store, qv, scope) = Joined(store, qv)),
                           !.stale = \E i \in 1..Len(out.context) :
                                        out.context[i].document_id \in removed]]
    /\ UNCHANGED <<ckvars, store, nextId, removed, uploads>>

Next ==
    \E r \in Reqs :
        \/ \E file \in UploadFiles : UploadStart(r, file)
        \/ \E b \in 1..NumBatches(req[r].chunks) : EmbedBatchDone(r, b)
        \/ \E b \in 1..NumBatches(req[r].chunks) : EmbedBatchFail(r, b)
        \/ UploadPersist(r)
        \/ \E id \in DeleteIds : DeleteStart(r, id)
        \/ DeleteCommit(r)
        \/ \E body \in ProbeBodies : ChatStart(r, body)
        \/ ChatEmbedFail(r)
        \/ ChatRetrieve(r)

Spec == Init /\ [][Next]_vars

(***************************************************************************)
(* one upload of up to MaxBatches batches, completing in every order       *)
(***************************************************************************)
\* a token count that chunk_text cuts into 20 * (k - 1) + 1 chunks: k batches
TokensForBatches(k) == (k - 1) * BATCH_SIZE * Stride + 2 * TinyTail

LongFiles ==
    {[filename |-> "a.txt", oversize |-> FALSE, corrupt |-> FALSE,
      tokens |-> TokensForBatches(k)] : k \in 1..MaxBatches}

NextEmbed ==
    \/ \E file \in LongFiles : UploadStart(1, file)
    \/ \E b \in 1..NumBatches(req[1].chunks) : EmbedBatchDone(1, b)
    \/ \E b \in 1..NumBatches(req[1].chunks) : EmbedBatchFail(1, b)
    \/ UploadPersist(1)

SpecEmbed == Init /\ [][NextEmbed]_vars

(***************************************************************************)
(* chat over every body, next to deletions                                 *)
(***************************************************************************)
Chats == {r \in Reqs : req[r].kind = "chat"}

NextChat ==
    \E r \in Reqs :
        \/ \E id \in DeleteIds : DeleteStart(r, id)
        \/ DeleteCommit(r)
        \/ \E body \in ChatBodies :
              Cardinality(Chats) < MaxChats /\ ChatStart(r, body)
        \/ ChatEmbedFail(r)
        \/ ChatRetrieve(r)

SpecChat == Init /\ [][NextChat]_vars

(***************************************************************************)
(* Claims about chunk_text                                                 *)
(***************************************************************************)
\* the number of starts 0, 450, 900, ... below len: the chunks of plain
\* windowing
NaiveCount(len) == (len + Stride - 1) \div Stride

ChunkLen(c) == c.hi - c.lo

\* C4: when chunk_text meets a remainder of 1..49 tokens after advancing, it
\* emits one chunk fewer than plain windowing and its last chunk has at least
\* 50 tokens; a text of fewer than 50 tokens gives exactly one chunk (read
\* for a text with at least one token: C5 settles the empty one).
TailMergeClaim ==
    ck_pc = "done" =>
        /\ ck_st.tail =>
              /\ Len(ck_st.chunks) = NaiveCount(ck_len) - 1
              /\ ChunkLen(ck_st.chunks[Len(ck_st.chunks)]) >= TinyTail
        /\ (0 < ck_len /\ ck_len < TinyTail) => Len(ck_st.chunks) = 1

Covered(chunks, p) == \E i \in 1..Len(chunks) : chunks[i].lo <= p /\ p < chunks[i].hi

ChunkCoverageDone ==
    ck_pc = "done" =>
        /\ \A p \in 0..(ck_len - 1) : Covered(ck_st.chunks, p)
        /\ \A i \in 1..(Len(ck_st.chunks) - 1) :
              ck_st.chunks[i].lo < ck_st.chunks[i + 1].lo
        /\ \A i \in 1..Len(ck_st.chunks) :
              /\ 0 <= ck_st.chunks[i].lo
              /\ ck_st.chunks[i].lo < ck_st.chunks[i].hi
              /\ ck_st.chunks[i].hi <= ck_len
              /\ ChunkLen(ck_st.chunks[i]) <= CHUNK_SIZE
        /\ ck_len = 0 => ck_st.chunks = <<>>

\* C5: chunk_text terminates, and what it returns covers every token
\* position, in increasing start order, each chunk a slice of at most 500
\* tokens of the text; an empty token list gives no chunk.
ChunkCoverage == [](ChunkCoverageDone) /\ <>(ck_pc = "done")

\* a text long enough for three windows has been chunked
ChunkCoverageWitness ==
    /\ ck_pc = "done"
    /\ ck_len > 2 * Stride
    /\ Len(ck_st.chunks) >= 3

(***************************************************************************)
(* Claims about upload_document and delete_document                        *)
(***************************************************************************)
Uploaded(r) == req[r].kind = "upload" /\ req[r].pc = "done"

\* C1: an upload that is accepted, whose embedding calls all return and whose
\* store statements all succeed answers 200; the n-th such upload of a name
\* that was absent at first (no deletion in between) answers version n, and
\* right after it the store holds one document of that name, with exactly the
\* chunks of this upload.
SuccessiveUploadVersions ==
    \A r \in Reqs :
        (Uploaded(r) /\ req[r].persisting) =>
            /\ req[r].status = 200
            /\ req[r].seq >= 1 => req[r].version = req[r].seq
            /\ req[r].sole

EmbeddingsInChunkOrder ==
    /\ \A r \in Reqs :
          (Uploaded(r) /\ Len(req[r].done) > 0) =>
              /\ Len(req[r].embeddings) = Len(req[r].chunks)
              /\ \A i \in 1..Len(req[r].chunks) :
                    req[r].embeddings[i] = Embed(req[r].chunks[i])
    /\ \A c \in store.chunks : c.embedding = Embed(c.content)

\* an upload of three batches that completed last batch first, first batch
\* second
EmbeddingsInChunkOrderWitness ==
    \E r \in Reqs :
        /\ Uploaded(r)
        /\ Len(req[r].done) = 3
        /\ req[r].done[1].batch = 3
        /\ req[r].done[2].batch = 1
        /\ Len(req[r].embeddings) = Len(req[r].chunks)
        /\ Len(req[r].chunks) > 2 * BATCH_SIZE

\* C7: every chunk row belongs to a document row; no chunk of a document
\* whose removal was committed is in the store, and none is retrieved by a
\* chat that queries after the removal.
ChunksOwned ==
    /\ \A c \in store.chunks : \E d \in store.docs : d.id = c.document_id
    /\ \A c \in store.chunks : c.document_id \notin removed
    /\ \A r \in Reqs : ~req[r].stale

\* document 1 and its two chunks were deleted, and a chat that queried
\* afterwards found the one chunk of document 2
ChunksOwnedWitness ==
    \E r1, r2 \in Reqs :
        /\ req[r1].kind = "delete" /\ req[r1].status = 200 /\ req[r1].target = 1
        /\ req[r2].kind = "chat" /\ req[r2].status = 200 /\ req[r2].pool = 1
        /\ Len(req[r2].context) = 1

(***************************************************************************)
(* Claims about chat                                                       *)
(***************************************************************************)
Chatted(r) == req[r].kind = "chat" /\ req[r].pc = "done"

\* the query was executed (embed_query returned and the store accepted the
\* statement)
Queried(r) == Chatted(r) /\ req[r].status \in {200, 404}

\* the identifiers of a request that are well-formed once blanks around them
\* are removed
WellFormed(document_ids) ==
    {ParseUUID(Strip(document_ids[i])) : i \in 1..Len(document_ids)} \ {0}

\* C8: with V the well-formed identifiers of the request, every row returned
\* belongs to a document of V when V is not empty, and the search ran over
\* every chunk when V is empty; at most top_k rows are returned, by
\* non-decreasing distance.
RetrievalScoped ==
    \A r \in Reqs :
        Queried(r) =>
            LET V == WellFormed(req[r].document_ids)
                rows == req[r].context
            IN  /\ V # {} => \A i \in 1..Len(rows) : rows[i].document_id \in V
                /\ V = {} => req[r].whole
                /\ Len(rows) <= req[r].top_k
                /\ \A i \in 1..(Len(rows) - 1) : rows[i].distance <= rows[i + 1].distance

\* a request naming one malformed and one well-formed identifier got rows,
\* and the store held chunks of another document too
RetrievalScopedWitness ==
    \E r \in Reqs :
        /\ Chatted(r) /\ req[r].status = 200
        /\ req[r].document_ids = <<"zzz", "uuid-2">>
        /\ ~req[r].whole

\* C9: a query with a positive top_k that finds no candidate chunk answers
\* 404 and starts no generation; no query answers 200 with an empty context.
EmptyRetrievalNotFound ==
    \A r \in Reqs :
        Chatted(r) =>
            /\ (Queried(r) /\ req[r].top_k >= 1 /\ req[r].pool = 0) =>
                   (req[r].status = 404 /\ ~req[r].generating)
            /\ req[r].status = 200 => req[r].context # <<>>
            /\ req[r].generating => req[r].context # <<>>

\* a query scoped to a well-formed identifier of no document answered 404
\* while the store held chunks
EmptyRetrievalNotFoundWitness ==
    \E r \in Reqs :
        /\ Chatted(r) /\ req[r].status = 404
        /\ req[r].top_k >= 1 /\ req[r].pool = 0
        /\ req[r].document_ids = <<"uuid-9">>
        /\ store.chunks # {}

\* C10: a chat request whose top_k is zero or negative is answered with a
\* validation error, not with NotFound or a store or upstream failure, and
\* starts no generation.
TopKValidated ==
    \A r \in Reqs :
        (Chatted(r) /\ req[r].top_k <= 0) =>
            /\ req[r].error = "ValidationError"
            /\ ~req[r].generating

====
